---------------------------- MODULE Spec2Model ----------------------------
(***************************************************************************)
(* Model of the object-identification streaming service (utils.py, app.py).*)
(*                                                                         *)
(* Threads: each /video_feed request runs one generate_frames generator   *)
(* (a "loop"), the /stats endpoint runs get_latest_stats, and a direct     *)
(* caller of the store API exercises _update_latest_stats with arbitrary   *)
(* arguments.  The shared state is the _latest_stats dictionary guarded    *)
(* by _stats_lock.  Python dictionaries are objects: the model keeps them  *)
(* in a heap and the store, the locals and the returned snapshots hold     *)
(* references, so that copying (dict(...)) and aliasing differ.            *)
(*                                                                         *)
(* _set_alert (utils.py:47-56) has no caller and is not modelled.           *)
(*                                                                         *)
(* Time is time.time() in whole seconds.  FPS values are exact multiples   *)
(* of 1/FpsScale.  A counts dictionary is the sequence of its items in     *)
(* insertion order.                                                        *)
(***************************************************************************)
EXTENDS Integers, Sequences, FiniteSets, TLC

\* ------------------------------------------------------------- bounds
MaxFrames == 12      \* frames one source can deliver before it fails
MaxFramesConc == 6   \* the same, when two loops run at once (SpecConc)
MaxFramesLong == 18  \* the same, for the runs of three sampling frames (SpecLong)
MaxDet == 2          \* boxes the detector returns for one frame
MaxDetWide == 3      \* the same, for the crowded scenes (SpecWide)
Epoch == 4           \* time.time() when the process starts (it is > alert_cooldown:
                     \* wall-clock seconds since 1970)
MaxTime == 8         \* the clock stops advancing here
MaxTimeConc == 5     \* the same, in SpecConc and SpecIso

\* ------------------------------------------------------------- configuration
allowed_classes ==
    {"person", "car", "dog", "cat", "bicycle", "motorcycle", "bus",
     "truck", "traffic light", "fire hydrant", "stop sign",
     "parking meter", "bird", "horse", "sheep", "cow"}

\* model.names of the detector, restricted to the class ids the stub detector
\* of the model returns: two allowlisted classes and one that is not.
ClassIds == {0, 2, 63}
names(cls_id) ==
    CASE cls_id = 0 -> "person"
      [] cls_id = 2 -> "car"
      [] OTHER      -> "laptop"

alert_cooldown == 3
SampleEvery == 6
FpsScale == 200

\* Python's None, as an alert_message
None == "<None>"
\* the truth value Python gives an alert_message in `if alert_message:`
Truthy(m) == m # None /\ m # ""

\* ------------------------------------------------------------- threads
Loops == {"loop1", "loop2"}
Caller == "caller"
StatsT == "stats"
Free == "free"
Writers == Loops \cup {Caller}
Threads == Writers \cup {StatsT}

\* ------------------------------------------------------------- heap
NDicts == Cardinality(Writers) + 3
NAlerts == Cardinality({StatsT}) + 2
DictRefs == 1 .. NDicts
AlertRefs == 1 .. NAlerts
EmptyDict == << >>
NoAlert == [message |-> "", ts |-> 0]
\* detector output not yet available (last_results = None)
NoResults == << -1 >>

VARIABLES
    now,            \* time.time()
    stats_lock,     \* _stats_lock: Free, or the thread that holds it
    latest_stats,   \* _latest_stats: [fps, counts (ref), last_update_ts, alert (ref)]
    dicts,          \* heap of counts dictionaries
    alerts,         \* heap of alert dictionaries
    pc,             \* position of every thread
    call,           \* fps and alert_message of the _update_latest_stats call a writer is in
    counts,         \* a writer's local `counts`, also the argument of its call
                    \* (a reference, 0 when unbound)
    frame_count,    \* locals of generate_frames, per loop
    last_results,
    smoothed_fps,
    last_alert_time,
    cap,            \* the cv2.VideoCapture of a loop: "none", "open", "released"
    snap,           \* the dictionary get_latest_stats builds and returns
    tag,            \* history: the update call that wrote each field of the store
    snap_tag,       \* history: the same, for the fields of the snapshot
    hist,           \* history of every loop (detector calls, chunks, alerts)
    held            \* history: the value of the returned snapshot as its holder knows it

vars == << now, stats_lock, latest_stats, dicts, alerts, pc, call, counts,
           frame_count, last_results, smoothed_fps, last_alert_time, cap,
           snap, tag, snap_tag, hist, held >>

\* ------------------------------------------------------------- pure functions
\* mutant: the allowlist is not consulted
is_allowed_class_any(cls_id) == TRUE

\* is_allowed_class(model, cls_id)
is_allowed_class(cls_id) == names(cls_id) \in allowed_classes

\* counts.get(cls_name, 0) on a dictionary kept as its items in insertion order
RECURSIVE DictGet(_, _, _)
DictGet(d, k, default) ==
    IF d = << >> THEN default
    ELSE IF Head(d)[1] = k THEN Head(d)[2]
    ELSE DictGet(Tail(d), k, default)

DictKeys(d) == { d[i][1] : i \in 1 .. Len(d) }

\* counts[cls_name] = v: an existing key keeps its place, a new key goes last
DictSet(d, k, v) ==
    IF k \in DictKeys(d)
    THEN [ i \in 1 .. Len(d) |-> IF d[i][1] = k THEN << k, v >> ELSE d[i] ]
    ELSE Append(d, << k, v >>)

\* the counting loop of generate_frames over the boxes of `results`
RECURSIVE CountAllowed(_, _)
CountAllowed(results, acc) ==
    IF results = << >> THEN acc
    ELSE LET cls_id == Head(results)
         IN  IF ~ is_allowed_class(cls_id)
             THEN CountAllowed(Tail(results), acc)
             ELSE CountAllowed(Tail(results),
                               DictSet(acc, names(cls_id),
                                       DictGet(acc, names(cls_id), 0) + 1))

\* mutant: among equal counts the last item wins
RECURSIVE MaxItem_last(_, _)
MaxItem_last(items, best) ==
    IF items = << >> THEN best
    ELSE MaxItem_last(Tail(items),
                      IF Head(items)[2] >= best[2] THEN Head(items) ELSE best)

\* max(counts.items(), key=lambda x: x[1]): the first item with the largest count
RECURSIVE MaxItem(_, _)
MaxItem(items, best) ==
    IF items = << >> THEN best
    ELSE MaxItem(Tail(items), IF Head(items)[2] > best[2] THEN Head(items) ELSE best)

\* f"{count} {detected_class} detected"
AlertText(count, detected_class) ==
    ToString(count) \o " " \o detected_class \o " detected"

\* mutant: the cooldown test is >= instead of >
AlertMessage_ge(d, current_time, last_alert) ==
    IF d = << >> THEN None
    ELSE LET item == MaxItem(Tail(d), Head(d))
         IN  IF (current_time - last_alert) >= alert_cooldown
             THEN AlertText(item[2], item[1])
             ELSE None

\* alert_message of a sampling frame whose counts are `d`
AlertMessage(d, current_time, last_alert) ==
    IF d = << >> THEN None
    ELSE LET item == MaxItem(Tail(d), Head(d))
         IN  IF (current_time - last_alert) > alert_cooldown
             THEN AlertText(item[2], item[1])
             ELSE None

\* instant_fps = 1.0 / max(infer_dt, 1e-6), in units of 1/FpsScale
InstantFps(infer_dt) ==
    IF infer_dt = 0 THEN FpsScale * 1000000 ELSE FpsScale \div infer_dt

\* mutant: the first sample is averaged with the initial 0.0 like every other
Smooth_noseed(smoothed, instant) == (9 * smoothed + instant) \div 10

\* smoothed_fps = instant_fps if smoothed_fps == 0 else 0.9*smoothed_fps + 0.1*instant_fps
Smooth(smoothed, instant) ==
    IF smoothed = 0 THEN instant ELSE (9 * smoothed + instant) \div 10

\* draw_boxes: the labels of the boxes drawn, in order (allowed classes only)
draw_boxes(results) ==
    SelectSeq([ i \in 1 .. Len(results) |-> names(results[i]) ],
              LAMBDA n : n \in allowed_classes)

\* how long one inference can take, in seconds
InferTimes == {0, 1}

\* every result the detector can return for a frame
DetectorOutputs ==
    UNION { [ 1 .. n -> ClassIds ] : n \in 0 .. MaxDet }

\* what the detector can return on a frame with up to MaxDetWide boxes
WideOutputs ==
    UNION { [ 1 .. n -> ClassIds ] : n \in 0 .. MaxDetWide }

\* ------------------------------------------------------------- heap operations
DictRoots(ls, cnts, sn) ==
    ({ ls.counts, sn.counts } \cup { cnts[t] : t \in Writers }) \ {0}
AlertRoots(ls, sn) == { ls.alert, sn.alert } \ {0}
InitStats == [fps |-> 0, counts |-> 1, last_update_ts |-> 0, alert |-> 1]

\* a fresh object: the lowest reference nothing points to
NewRef(refs, roots) ==
    CHOOSE r \in refs \ roots : \A q \in refs \ roots : r <= q

\* Object identity cannot be observed by the program, so the heap is kept in a
\* canonical layout: the live objects are numbered in the order in which the
\* roots (the store, the writers' locals, the snapshot) first reach them, and
\* objects nothing points to are gone.
WriterSeq == << "loop1", "loop2", Caller >>
DictRootSeq(ls, cnts, sn) ==
    << ls.counts >> \o [ i \in 1 .. Len(WriterSeq) |-> cnts[WriterSeq[i]] ] \o << sn.counts >>
AlertRootSeq(ls, sn) == << ls.alert, sn.alert >>

FirstAt(rs, r) == CHOOSE i \in 1 .. Len(rs) : rs[i] = r /\ \A j \in 1 .. (i - 1) : rs[j] # r
Rank(rs, r) ==
    IF r = 0 THEN 0 ELSE Cardinality({ rs[j] : j \in 1 .. FirstAt(rs, r) } \ {0})
Compact(h, rs, blank) ==
    LET live == { rs[i] : i \in 1 .. Len(rs) } \ {0}
    IN  [ n \in DOMAIN h |->
            IF \E r \in live : Rank(rs, r) = n
            THEN h[CHOOSE r \in live : Rank(rs, r) = n]
            ELSE blank ]

\* the next state of the store, the locals, the snapshot and the two heaps
Place(ls, cnts, sn, hd, ha) ==
    LET rd == DictRootSeq(ls, cnts, sn)
        ra == AlertRootSeq(ls, sn)
    IN  /\ latest_stats' = [ls EXCEPT !.counts = Rank(rd, @), !.alert = Rank(ra, @)]
        /\ counts' = [ t \in Writers |-> Rank(rd, cnts[t]) ]
        /\ snap' = [sn EXCEPT !.counts = Rank(rd, @), !.alert = Rank(ra, @)]
        /\ dicts' = Compact(hd, rd, EmptyDict)
        /\ alerts' = Compact(ha, ra, NoAlert)

\* ------------------------------------------------------------- initial state
NoSnap == [fps |-> 0, counts |-> 0, last_update_ts |-> 0, alert |-> 0]
InitTag == << "init", 0 >>
InitHist ==
    [ ndet      |-> 0,        \* detector invocations that returned
      raised_at |-> 0,        \* frame on which the detector raised, if it did
      det_n     |-> 0,        \* frame of the most recent invocation
      det_res   |-> NoResults,\* what it returned
      stub      |-> TRUE,     \* every invocation returned one "person" box
      chunks    |-> 0,        \* chunks yielded
      overlaid  |-> FALSE,    \* draw_boxes ran for the last chunk
      overlay   |-> << >>,    \* the labels it drew
      releases  |-> 0,        \* calls of cap.release()
      alert_at  |-> {},       \* frames at which an alert was emitted
      last_msg  |-> "",       \* the text of the last alert emitted
      nqual     |-> 0,        \* sampling frames with non-empty counts
      q_prev    |-> 0,        \* time of the one before the last of them
      q_last    |-> 0,        \* time of the last of them
      q_emit    |-> FALSE,    \* the last of them emitted an alert
      q_since   |-> 0 ]       \* last_alert_time when the last of them was judged

Init ==
    /\ now = Epoch
    /\ stats_lock = Free
    /\ latest_stats = InitStats
    /\ dicts = [ r \in DictRefs |-> EmptyDict ]
    /\ alerts = [ r \in AlertRefs |-> NoAlert ]
    /\ pc = [ t \in Threads |-> IF t \in Loops THEN "created" ELSE "idle" ]
    /\ call = [ t \in Writers |-> [fps |-> 0, alert_message |-> None] ]
    /\ counts = [ t \in Writers |-> 0 ]
    /\ frame_count = [ l \in Loops |-> 0 ]
    /\ last_results = [ l \in Loops |-> NoResults ]
    /\ smoothed_fps = [ l \in Loops |-> 0 ]
    /\ last_alert_time = [ l \in Loops |-> 0 ]
    /\ cap = [ l \in Loops |-> "none" ]
    /\ snap = NoSnap
    /\ tag = [fps |-> InitTag, counts |-> InitTag, last_update_ts |-> InitTag]
    /\ snap_tag = [fps |-> InitTag, counts |-> InitTag, last_update_ts |-> InitTag]
    /\ hist = [ l \in Loops |-> InitHist ]
    /\ held = [counts |-> EmptyDict, alert |-> NoAlert]

\* ------------------------------------------------------------- Statistics Store
loop_vars == << frame_count, last_results, smoothed_fps, last_alert_time, cap, hist >>
read_vars == << snap, snap_tag, held >>

\* the positions of a writer inside _update_latest_stats
UpdPcs == {"upd_lock", "upd_fps", "upd_counts", "upd_ts", "upd_alert"}

\* mutant: the store is entered without taking the lock
CanAcquire_nolock(t) == TRUE

\* `with _stats_lock:` can be entered
CanAcquire(t) == stats_lock = Free

\* the update call a writer is in
CallTag(t) == << t, IF t \in Loops THEN frame_count[t] ELSE 0 >>

\* where a writer goes on when _update_latest_stats returns
AfterUpdate(t) == IF t \in Loops THEN "emit" ELSE "idle"

\* _update_latest_stats: with _stats_lock:
UpdLock(t) ==
    /\ pc[t] = "upd_lock"
    /\ CanAcquire(t)
    /\ stats_lock' = t
    /\ pc' = [pc EXCEPT ![t] = "upd_fps"]
    /\ UNCHANGED << now, latest_stats, dicts, alerts, call, counts, tag,
                    loop_vars, read_vars >>

\* _latest_stats["fps"] = float(fps)
UpdFps(t) ==
    /\ pc[t] = "upd_fps"
    /\ latest_stats' = [latest_stats EXCEPT !.fps = call[t].fps]
    /\ tag' = [tag EXCEPT !.fps = CallTag(t)]
    /\ pc' = [pc EXCEPT ![t] = "upd_counts"]
    /\ UNCHANGED << now, stats_lock, dicts, alerts, call, counts,
                    loop_vars, read_vars >>

\* mutant: the store keeps the caller's dictionary itself
StoredCounts_alias(t, fresh) == counts[t]

\* mutant: an empty counts dictionary does not replace the stored one
StoredCounts_keepempty(t, fresh) ==
    IF dicts[counts[t]] = EmptyDict THEN latest_stats.counts ELSE fresh

\* the object stored for dict(counts): a new dictionary with the same items
StoredCounts(t, fresh) == fresh

\* _latest_stats["counts"] = dict(counts)
UpdCounts(t) ==
    /\ pc[t] = "upd_counts"
    /\ LET fresh == NewRef(DictRefs, DictRoots(latest_stats, counts, snap))
           copied == [dicts EXCEPT ![fresh] = dicts[counts[t]]]
       IN  Place([latest_stats EXCEPT !.counts = StoredCounts(t, fresh)],
                 counts, snap, copied, alerts)
    /\ tag' = [tag EXCEPT !.counts = CallTag(t)]
    /\ pc' = [pc EXCEPT ![t] = "upd_ts"]
    /\ UNCHANGED << now, stats_lock, call, loop_vars, snap_tag, held >>

\* _latest_stats["last_update_ts"] = time.time()
UpdTs(t) ==
    /\ pc[t] = "upd_ts"
    /\ latest_stats' = [latest_stats EXCEPT !.last_update_ts = now]
    /\ tag' = [tag EXCEPT !.last_update_ts = CallTag(t)]
    /\ pc' = [pc EXCEPT ![t] = "upd_alert"]
    /\ UNCHANGED << now, stats_lock, dicts, alerts, call, counts,
                    loop_vars, read_vars >>

\* mutant: the alert is replaced on every call
ReplacesAlert_always(m) == TRUE

\* mutant: `if alert_message is not None:`
ReplacesAlert_notnone(m) == m # None

\* `if alert_message:` of _update_latest_stats
ReplacesAlert(m) == Truthy(m)

\* if alert_message: _latest_stats["alert"] = {...}; then the lock is released
\* and the call returns
UpdAlert(t) ==
    /\ pc[t] = "upd_alert"
    /\ IF ReplacesAlert(call[t].alert_message)
       THEN LET fresh == NewRef(AlertRefs, AlertRoots(latest_stats, snap))
                made == [alerts EXCEPT ![fresh] =
                            [message |-> call[t].alert_message, ts |-> now]]
            IN  Place([latest_stats EXCEPT !.alert = fresh], counts, snap, dicts, made)
       ELSE UNCHANGED << latest_stats, alerts, dicts, counts, snap >>
    /\ stats_lock' = IF stats_lock = t THEN Free ELSE stats_lock
    /\ pc' = [pc EXCEPT ![t] = AfterUpdate(t)]
    /\ UNCHANGED << now, call, tag, loop_vars, snap_tag, held >>

write_vars == << call, counts >>

\* get_latest_stats: with _stats_lock:  (the caller has dropped the previous result)
GetLock ==
    /\ pc[StatsT] = "idle"
    /\ CanAcquire(StatsT)
    /\ stats_lock' = StatsT
    /\ Place(latest_stats, counts, NoSnap, dicts, alerts)
    /\ pc' = [pc EXCEPT ![StatsT] = "get_fps"]
    /\ UNCHANGED << now, tag, snap_tag, held, call, loop_vars >>

\* "fps": _latest_stats.get("fps", 0.0)
GetFps ==
    /\ pc[StatsT] = "get_fps"
    /\ snap' = [snap EXCEPT !.fps = latest_stats.fps]
    /\ snap_tag' = [snap_tag EXCEPT !.fps = tag.fps]
    /\ pc' = [pc EXCEPT ![StatsT] = "get_counts"]
    /\ UNCHANGED << now, stats_lock, latest_stats, dicts, alerts, tag, held,
                    write_vars, loop_vars >>

\* the object returned for dict(_latest_stats.get("counts", {}))
ReturnedCounts(fresh) == fresh

\* "counts": dict(_latest_stats.get("counts", {}))
GetCounts ==
    /\ pc[StatsT] = "get_counts"
    /\ LET fresh == NewRef(DictRefs, DictRoots(latest_stats, counts, snap))
           copied == [dicts EXCEPT ![fresh] = dicts[latest_stats.counts]]
       IN  Place(latest_stats, counts, [snap EXCEPT !.counts = ReturnedCounts(fresh)],
                 copied, alerts)
    /\ snap_tag' = [snap_tag EXCEPT !.counts = tag.counts]
    /\ pc' = [pc EXCEPT ![StatsT] = "get_ts"]
    /\ UNCHANGED << now, stats_lock, tag, held, call, loop_vars >>

\* "last_update_ts": _latest_stats.get("last_update_ts", 0.0)
GetTs ==
    /\ pc[StatsT] = "get_ts"
    /\ snap' = [snap EXCEPT !.last_update_ts = latest_stats.last_update_ts]
    /\ snap_tag' = [snap_tag EXCEPT !.last_update_ts = tag.last_update_ts]
    /\ pc' = [pc EXCEPT ![StatsT] = "get_alert"]
    /\ UNCHANGED << now, stats_lock, latest_stats, dicts, alerts, tag, held,
                    write_vars, loop_vars >>

\* mutant: the stored alert dictionary itself is returned
ReturnedAlert_alias(fresh) == latest_stats.alert

\* the object returned for dict(_latest_stats.get("alert", {...}))
ReturnedAlert(fresh) == fresh

\* "alert": dict(_latest_stats.get("alert", ...)); the lock is released and the
\* dictionary is returned
GetAlert ==
    /\ pc[StatsT] = "get_alert"
    /\ LET fresh == NewRef(AlertRefs, AlertRoots(latest_stats, snap))
           copied == [alerts EXCEPT ![fresh] = alerts[latest_stats.alert]]
       IN  Place(latest_stats, counts, [snap EXCEPT !.alert = ReturnedAlert(fresh)],
                 dicts, copied)
    /\ held' = [counts |-> dicts'[snap'.counts], alert |-> alerts'[snap'.alert]]
    /\ stats_lock' = IF stats_lock = StatsT THEN Free ELSE stats_lock
    /\ pc' = [pc EXCEPT ![StatsT] = "idle"]
    /\ UNCHANGED << now, tag, snap_tag, call, loop_vars >>

\* a snapshot has been returned and its caller still holds it
Returned == pc[StatsT] = "idle" /\ snap.alert # 0

\* ------------------------------------------------------------- callers of the store
\* the key a caller writes into a dictionary it holds, and the message it writes
\* into an alert it holds
Tampered == "tampered"

\* arguments a direct caller passes to _update_latest_stats
CallerFps == {0, FpsScale}
CallerCounts == { << >>, << << "person", 1 >> >> }
CallerAlerts == { None, "", "1 person detected" }

\* _update_latest_stats(fps, counts, alert_message) is called with a dictionary
\* the caller has just built and keeps
CallUpdate(fps, d, m) ==
    /\ pc[Caller] = "idle"
    /\ LET fresh == NewRef(DictRefs, DictRoots(latest_stats, counts, snap))
           made == [dicts EXCEPT ![fresh] = d]
       IN  Place(latest_stats, [counts EXCEPT ![Caller] = fresh], snap, made, alerts)
    /\ call' = [call EXCEPT ![Caller] = [fps |-> fps, alert_message |-> m]]
    /\ pc' = [pc EXCEPT ![Caller] = "upd_lock"]
    /\ UNCHANGED << now, stats_lock, tag, loop_vars, snap_tag, held >>

\* after the call has returned, the caller changes the dictionary it passed
MutatePassed ==
    /\ pc[Caller] = "idle"
    /\ counts[Caller] # 0
    /\ dicts' = [dicts EXCEPT ![counts[Caller]] = DictSet(@, Tampered, 1)]
    /\ UNCHANGED << now, stats_lock, latest_stats, alerts, tag, pc, write_vars,
                    loop_vars, read_vars >>

\* the caller of get_latest_stats changes the counts of the value it was returned
MutateReturnedCounts ==
    /\ pc[StatsT] = "idle"
    /\ snap.counts # 0
    /\ dicts' = [dicts EXCEPT ![snap.counts] = DictSet(@, Tampered, 1)]
    /\ held' = [held EXCEPT !.counts = DictSet(@, Tampered, 1)]
    /\ UNCHANGED << now, stats_lock, latest_stats, alerts, tag, pc, write_vars,
                    loop_vars, snap, snap_tag >>

\* the caller of get_latest_stats changes the alert of the value it was returned
MutateReturnedAlert ==
    /\ pc[StatsT] = "idle"
    /\ snap.alert # 0
    /\ alerts' = [alerts EXCEPT ![snap.alert].message = Tampered]
    /\ held' = [held EXCEPT !.alert.message = Tampered]
    /\ UNCHANGED << now, stats_lock, latest_stats, dicts, tag, pc, write_vars,
                    loop_vars, snap, snap_tag >>

\* ------------------------------------------------------------- generate_frames
store_vars == << stats_lock, latest_stats, dicts, alerts, tag >>

\* the first next() on the generator: cap = cv2.VideoCapture(source), the locals
Open(l) ==
    /\ pc[l] = "created"
    /\ cap' = [cap EXCEPT ![l] = "open"]
    /\ pc' = [pc EXCEPT ![l] = "pull"]
    /\ UNCHANGED << now, store_vars, write_vars, read_vars, frame_count,
                    last_results, smoothed_fps, last_alert_time, hist >>

\* the loop is at `ret, frame = cap.read()`: at its first pull, or resumed by
\* next() after a yield
AtPull(l) == pc[l] \in {"pull", "yielded"}

\* mutant: the loop ends without releasing the capture
PullFail_norelease(l) ==
    /\ pc[l] \in {"pull", "yielded"}
    /\ pc' = [pc EXCEPT ![l] = "done"]
    /\ UNCHANGED << now, stats_lock, latest_stats, dicts, alerts, tag, call, counts,
                    snap, snap_tag, held, frame_count, last_results, smoothed_fps,
                    last_alert_time, cap, hist >>

\* ret is False: break, then cap.release()
PullFail(l) ==
    /\ AtPull(l)
    /\ cap' = [cap EXCEPT ![l] = "released"]
    /\ hist' = [hist EXCEPT ![l].releases = @ + 1]
    /\ pc' = [pc EXCEPT ![l] = "done"]
    /\ UNCHANGED << now, store_vars, write_vars, read_vars, frame_count,
                    last_results, smoothed_fps, last_alert_time >>

\* mutant: every third frame is a sampling frame
IsSamplingFrame_third(n) == n % 3 = 0

\* mutant: the counter is tested before it is incremented
IsSamplingFrame_stale(n) == (n - 1) % SampleEvery = 0

\* `if frame_count % 6 == 0`, for the frame counter n of the frame just pulled
IsSamplingFrame(n) == n % SampleEvery = 0

\* a frame is read and it is not a sampling frame
PullSkip(l, maxf) ==
    /\ AtPull(l)
    /\ frame_count[l] < maxf
    /\ ~ IsSamplingFrame(frame_count[l] + 1)
    /\ frame_count' = [frame_count EXCEPT ![l] = @ + 1]
    /\ pc' = [pc EXCEPT ![l] = "emit"]
    /\ UNCHANGED << now, store_vars, write_vars, read_vars, last_results,
                    smoothed_fps, last_alert_time, cap, hist >>

\* mutant: the cooldown timer restarts at every sampling frame
NextAlertTime_always(alert_message, current_time, last) == current_time

\* `if alert_message: last_alert_time = current_time`
NextAlertTime(alert_message, current_time, last) ==
    IF Truthy(alert_message) THEN current_time ELSE last

\* a frame is read and it is a sampling frame: the detector runs on it for
\* infer_dt seconds and returns results; FPS, counts and the alert are computed
\* and _update_latest_stats is called
PullSample(l, maxf, maxt, results, infer_dt) ==
    /\ AtPull(l)
    /\ frame_count[l] < maxf
    /\ IsSamplingFrame(frame_count[l] + 1)
    /\ now + infer_dt <= maxt
    /\ LET n == frame_count[l] + 1
           current_time == now + infer_dt
           fps == Smooth(smoothed_fps[l], InstantFps(infer_dt))
           c == CountAllowed(results, EmptyDict)
           alert_message == AlertMessage(c, current_time, last_alert_time[l])
           fresh == NewRef(DictRefs, DictRoots(latest_stats, counts, snap))
           made == [dicts EXCEPT ![fresh] = c]
       IN  /\ now' = current_time
           /\ frame_count' = [frame_count EXCEPT ![l] = n]
           /\ smoothed_fps' = [smoothed_fps EXCEPT ![l] = fps]
           /\ last_results' = [last_results EXCEPT ![l] = results]
           /\ Place(latest_stats, [counts EXCEPT ![l] = fresh], snap, made, alerts)
           /\ last_alert_time' = [last_alert_time EXCEPT ![l] =
                                    NextAlertTime(alert_message, current_time, @)]
           /\ call' = [call EXCEPT ![l] = [fps |-> fps, alert_message |-> alert_message]]
           /\ hist' = [hist EXCEPT
                 ![l].ndet = @ + 1,
                 ![l].det_n = n,
                 ![l].det_res = results,
                 ![l].stub = @ /\ results = << 0 >>,
                 ![l].alert_at = IF Truthy(alert_message) THEN @ \cup {n} ELSE @,
                 ![l].last_msg = IF Truthy(alert_message) THEN alert_message ELSE @,
                 ![l].nqual = IF c # EmptyDict THEN @ + 1 ELSE @,
                 ![l].q_prev = IF c # EmptyDict THEN hist[l].q_last ELSE @,
                 ![l].q_last = IF c # EmptyDict THEN current_time ELSE @,
                 ![l].q_emit = IF c # EmptyDict THEN Truthy(alert_message) ELSE @,
                 ![l].q_since = IF c # EmptyDict THEN last_alert_time[l] ELSE @ ]
    /\ pc' = [pc EXCEPT ![l] = "upd_lock"]
    /\ UNCHANGED << stats_lock, tag, snap_tag, held, cap >>

\* mutant: a frame on which nothing was drawn is not sent
Emit_skipplain(l) ==
    /\ pc[l] = "emit"
    /\ hist' = [hist EXCEPT
          ![l].chunks = IF last_results[l] # NoResults THEN @ + 1 ELSE @,
          ![l].overlaid = last_results[l] # NoResults,
          ![l].overlay = IF last_results[l] # NoResults
                         THEN draw_boxes(last_results[l]) ELSE << >> ]
    /\ pc' = [pc EXCEPT ![l] = "yielded"]
    /\ UNCHANGED << now, stats_lock, latest_stats, dicts, alerts, tag, call, counts,
                    snap, snap_tag, held, frame_count, last_results, smoothed_fps,
                    last_alert_time, cap >>

\* `if last_results is not None: draw_boxes(...)`, resize, encode, yield
Emit(l) ==
    /\ pc[l] = "emit"
    /\ hist' = [hist EXCEPT
          ![l].chunks = @ + 1,
          ![l].overlaid = last_results[l] # NoResults,
          ![l].overlay = IF last_results[l] # NoResults
                         THEN draw_boxes(last_results[l]) ELSE << >> ]
    /\ pc' = [pc EXCEPT ![l] = "yielded"]
    /\ UNCHANGED << now, store_vars, write_vars, read_vars, frame_count,
                    last_results, smoothed_fps, last_alert_time, cap >>

\* what becomes of an open capture when the generator is closed at a yield:
\* GeneratorExit is raised there, no try/finally catches it, line 184 does not run.
\* Whether the abandoned capture object is finalised is up to the interpreter.
Abandoned(c, finalised) ==
    IF c = "open" THEN (IF finalised THEN "finalised" ELSE "open") ELSE c

\* the client disconnects: the server closes the generator
Cancel(l) ==
    /\ pc[l] \in {"created", "yielded"}
    /\ \E finalised \in BOOLEAN :
          cap' = [cap EXCEPT ![l] = Abandoned(@, finalised)]
    /\ pc' = [pc EXCEPT ![l] = "closed"]
    /\ UNCHANGED << now, store_vars, write_vars, read_vars, frame_count,
                    last_results, smoothed_fps, last_alert_time, hist >>

\* mutant: the exception is caught and the frame is sent without a new result
DetectRaises_skip(l, maxf) ==
    /\ pc[l] \in {"pull", "yielded"}
    /\ frame_count[l] < maxf
    /\ (frame_count[l] + 1) % SampleEvery = 0
    /\ frame_count' = [frame_count EXCEPT ![l] = @ + 1]
    /\ hist' = [hist EXCEPT ![l].raised_at = frame_count[l] + 1]
    /\ pc' = [pc EXCEPT ![l] = "emit"]
    /\ UNCHANGED << now, stats_lock, latest_stats, dicts, alerts, tag, call, counts,
                    snap, snap_tag, held, last_results, smoothed_fps,
                    last_alert_time, cap >>

\* a sampling frame is read and `model(frame)` raises: nothing catches the
\* exception, so the generator ends there, before lines 131-184; its capture is
\* left to the garbage collector
DetectRaises(l, maxf) ==
    /\ AtPull(l)
    /\ frame_count[l] < maxf
    /\ IsSamplingFrame(frame_count[l] + 1)
    /\ frame_count' = [frame_count EXCEPT ![l] = @ + 1]
    /\ hist' = [hist EXCEPT ![l].raised_at = frame_count[l] + 1]
    /\ \E finalised \in BOOLEAN :
          cap' = [cap EXCEPT ![l] = Abandoned(@, finalised)]
    /\ pc' = [pc EXCEPT ![l] = "raised"]
    /\ UNCHANGED << now, store_vars, write_vars, read_vars,
                    last_results, smoothed_fps, last_alert_time >>

\* time passes: the clock shows the next whole second.  The critical sections
\* of the store take no I/O and far less than a second, so the second does not
\* change while a thread is inside one.
Tick(maxt) ==
    /\ now < maxt
    /\ stats_lock = Free
    /\ now' = now + 1
    /\ UNCHANGED << store_vars, write_vars, read_vars, pc, loop_vars >>

\* ------------------------------------------------------------- specifications
\* one stream request and the stats endpoint
Next ==
    \/ Open("loop1")
    \/ PullFail("loop1")
    \/ PullSkip("loop1", MaxFrames)
    \/ \E results \in DetectorOutputs, infer_dt \in InferTimes :
          PullSample("loop1", MaxFrames, MaxTime, results, infer_dt)
    \/ UpdLock("loop1")
    \/ UpdFps("loop1")
    \/ UpdCounts("loop1")
    \/ UpdTs("loop1")
    \/ UpdAlert("loop1")
    \/ Emit("loop1")
    \/ DetectRaises("loop1", MaxFrames)
    \/ Cancel("loop1")
    \/ Tick(MaxTime)

Spec == Init /\ [][Next]_vars

\* one stream request over a longer source, with a detector that sees one person
\* or nothing
PersonOrNothing == { << >>, << 0 >> }

NextLong ==
    \/ Open("loop1")
    \/ PullFail("loop1")
    \/ PullSkip("loop1", MaxFramesLong)
    \/ \E results \in PersonOrNothing, infer_dt \in InferTimes :
          PullSample("loop1", MaxFramesLong, MaxTime, results, infer_dt)
    \/ UpdLock("loop1")
    \/ UpdFps("loop1")
    \/ UpdCounts("loop1")
    \/ UpdTs("loop1")
    \/ UpdAlert("loop1")
    \/ Emit("loop1")
    \/ Cancel("loop1")
    \/ Tick(MaxTime)

SpecLong == Init /\ [][NextLong]_vars

\* one stream request up to its first sampling frame, with a crowded scene
NextWide ==
    \/ Open("loop1")
    \/ PullFail("loop1")
    \/ PullSkip("loop1", MaxFramesConc)
    \/ \E results \in WideOutputs, infer_dt \in InferTimes :
          PullSample("loop1", MaxFramesConc, MaxTimeConc, results, infer_dt)
    \/ UpdLock("loop1")
    \/ UpdFps("loop1")
    \/ UpdCounts("loop1")
    \/ UpdTs("loop1")
    \/ UpdAlert("loop1")
    \/ Emit("loop1")
    \/ Tick(MaxTimeConc)

SpecWide == Init /\ [][NextWide]_vars

\* two stream requests at once and the stats endpoint
NextConc ==
    \/ \E l \in Loops :
          \/ Open(l)
          \/ PullFail(l)
          \/ PullSkip(l, MaxFramesConc)
          \/ \E results \in PersonOrNothing, infer_dt \in InferTimes :
                PullSample(l, MaxFramesConc, MaxTimeConc, results, infer_dt)
          \/ UpdLock(l)
          \/ UpdFps(l)
          \/ UpdCounts(l)
          \/ UpdTs(l)
          \/ UpdAlert(l)
          \/ Emit(l)
    \/ GetLock
    \/ GetFps
    \/ GetCounts
    \/ GetTs
    \/ GetAlert
    \/ Tick(MaxTimeConc)

SpecConc == Init /\ [][NextConc]_vars

\* the store alone: a direct caller of _update_latest_stats, a caller of
\* get_latest_stats, and what they do to the dictionaries they hold
NextIso ==
    \/ \E fps \in CallerFps, d \in CallerCounts, m \in CallerAlerts :
          CallUpdate(fps, d, m)
    \/ UpdLock(Caller)
    \/ UpdFps(Caller)
    \/ UpdCounts(Caller)
    \/ UpdTs(Caller)
    \/ UpdAlert(Caller)
    \/ MutatePassed
    \/ GetLock
    \/ GetFps
    \/ GetCounts
    \/ GetTs
    \/ GetAlert
    \/ MutateReturnedCounts
    \/ MutateReturnedAlert
    \/ Tick(MaxTimeConc)

SpecIso == Init /\ [][NextIso]_vars


\* ------------------------------------------------------------- properties
\* the values the store holds, with its references followed
StoredCountsValue == dicts[latest_stats.counts]
StoredAlertValue == alerts[latest_stats.alert]

\* the number of boxes of class name k in a detector result
Occurrences(results, k) ==
    Cardinality({ i \in 1 .. Len(results) : names(results[i]) = k })

\* C1: for every frame pulled with counter n, the detector has run on it iff
\* n mod 6 = 0 (so after frame n it has run n div 6 times, last on frame
\* 6 * (n div 6)); the chunk of frames 1..5 carries no overlay, and the chunk of
\* every later frame carries the boxes of the most recent detector result.
C1_SamplingAndOverlay ==
    \A l \in Loops :
        pc[l] = "yielded" =>
            LET n == frame_count[l]
            IN  /\ (hist[l].det_n = n) <=> (n % 6 = 0)
                /\ hist[l].ndet = n \div 6
                /\ hist[l].det_n = 6 * (n \div 6)
                /\ hist[l].chunks = n
                /\ hist[l].overlaid <=> (n >= 6)
                /\ hist[l].overlay =
                      IF n >= 6 THEN draw_boxes(hist[l].det_res) ELSE << >>

\* a non-sampling frame whose chunk carries boxes found on an earlier frame
C1_Witness ==
    /\ pc["loop1"] = "yielded"
    /\ frame_count["loop1"] = 11
    /\ hist["loop1"].det_n = 6
    /\ hist["loop1"].overlay = << "car", "person" >>

\* C2 (as claimed): once the generator has been closed after a chunk, cap.release()
\* has been called exactly once and the capture is not left open.
C2_CancelReleasesOnce ==
    \A l \in Loops :
        (pc[l] = "closed" /\ hist[l].chunks >= 1) =>
            (hist[l].releases = 1 /\ cap[l] # "open")

\* C3 (as claimed): of two consecutive qualifying events at t1 < t2, the second
\* emits an alert iff t2 - t1 > 3.
C3_ConsecutiveEventsDecide ==
    \A l \in Loops :
        (hist[l].nqual >= 2 /\ hist[l].q_prev < hist[l].q_last) =>
            (hist[l].q_emit <=> (hist[l].q_last - hist[l].q_prev > alert_cooldown))

\* C3 (amended): a qualifying event at t2 emits an alert iff t2 - tA > 3, where tA
\* is the time of the last alert the loop emitted (0 if none); t2 - t1 > 3 for the
\* previous qualifying event t1 is sufficient for it.  When no alert is emitted the
\* update still stores the loop's fps and counts and leaves the stored alert as it was.
C3_CooldownSinceLastAlert ==
    [][ \A l \in Loops :
          /\ (hist'[l].nqual = hist[l].nqual + 1) =>
                /\ Truthy(call'[l].alert_message)
                      <=> (now' - last_alert_time[l] > alert_cooldown)
                /\ (hist[l].nqual >= 1 /\ now' - hist[l].q_last > alert_cooldown)
                      => Truthy(call'[l].alert_message)
          /\ (pc[l] = "upd_alert" /\ pc'[l] = "emit" /\ ~ Truthy(call[l].alert_message)) =>
                /\ alerts'[latest_stats'.alert] = StoredAlertValue
                /\ latest_stats'.fps = smoothed_fps[l]
                /\ dicts'[latest_stats'.counts] = dicts[counts[l]]
      ]_vars

\* a third qualifying event emits an alert less than the cooldown after the second,
\* which emitted none, and the update for the second has been stored
C3_Witness ==
    /\ hist["loop1"].nqual = 3
    /\ hist["loop1"].q_emit
    /\ hist["loop1"].q_last - hist["loop1"].q_prev <= alert_cooldown
    /\ hist["loop1"].q_prev < hist["loop1"].q_last
    /\ pc["loop1"] = "emit"

\* C4: every key of the stored counts is an allowlisted class name, and while the
\* stored counts are those of the loop's most recent sampling frame, the count of
\* every allowlisted class is the number of boxes of that class the detector
\* returned for that frame.
C4_CountsAllowlisted ==
    /\ DictKeys(StoredCountsValue) \subseteq allowed_classes
    /\ \A l \in Loops :
          (tag.counts = << l, hist[l].det_n >>) =>
              \A k \in allowed_classes \cup DictKeys(StoredCountsValue) :
                  DictGet(StoredCountsValue, k, 0) = Occurrences(hist[l].det_res, k)

\* the detector returned a box outside the allowlist and one inside it, and the
\* update for that frame has been stored
C4_Witness ==
    /\ hist["loop1"].det_res = << 63, 0 >>
    /\ tag.counts = << "loop1", hist["loop1"].det_n >>
    /\ StoredCountsValue = << << "person", 1 >> >>

\* C5 (as claimed): whenever the stored alert message is non-empty, the most recent
\* update pushed by the loop carried an alert.
C5_AlertOnlyAfterQualifying ==
    \A l \in Loops :
        (pc[l] \notin UpdPcs /\ hist[l].ndet >= 1 /\ StoredAlertValue.message # "") =>
            Truthy(call[l].alert_message)

\* C5 (amended): the stored alert message is the text of the last alert the loop
\* emitted (at a sampling frame with non-empty counts whose cooldown had elapsed)
\* and is empty only while none was emitted: it stays through later updates that
\* carry no alert, until the next alert replaces it.
C5_AlertIsLastEmitted ==
    \A l \in {"loop1"} :
        pc[l] \notin UpdPcs =>
            /\ StoredAlertValue.message = hist[l].last_msg
            /\ (StoredAlertValue.message # "") <=> (hist[l].alert_at # {})
            /\ (StoredAlertValue.message # "") =>
                  /\ StoredAlertValue.ts >= last_alert_time[l]
                  /\ last_alert_time[l] > alert_cooldown

\* an alert emitted at frame 6 is still stored after the update of frame 12, whose
\* counts were empty
C5_Witness ==
    /\ pc["loop1"] = "emit"
    /\ frame_count["loop1"] = 12
    /\ call["loop1"].alert_message = None
    /\ StoredCountsValue = EmptyDict
    /\ StoredAlertValue.message = "2 car detected"

\* C6: when the source has failed after N frames, the detector has run N div 6
\* times, last on frame 6 * (N div 6), and N chunks were yielded; for N = 12 with
\* one "person" box per detector call and both sampling frames within the cooldown,
\* the detector ran twice, one alert was emitted, at frame 6, and 12 chunks were
\* yielded.
C6_EndToEnd ==
    \A l \in Loops :
        pc[l] = "done" =>
            LET n == frame_count[l]
            IN  /\ hist[l].ndet = n \div 6
                /\ hist[l].det_n = 6 * (n \div 6)
                /\ hist[l].chunks = n
                /\ (n = 12 /\ hist[l].stub
                       /\ hist[l].q_last - hist[l].q_prev <= alert_cooldown) =>
                      /\ hist[l].ndet = 2
                      /\ hist[l].nqual = 2
                      /\ hist[l].alert_at = {6}
                      /\ hist[l].chunks = 12

\* a 12-frame source with the stub detector, ended, the second sampling frame
\* exactly 3 seconds after the first
C6_Witness ==
    /\ pc["loop1"] = "done"
    /\ frame_count["loop1"] = 12
    /\ hist["loop1"].stub
    /\ hist["loop1"].q_last - hist["loop1"].q_prev = alert_cooldown
    /\ hist["loop1"].alert_at = {6}
    /\ hist["loop1"].chunks = 12

\* C10: when a pull has failed the loop has called cap.release() exactly once, the
\* capture is released, and the chunks yielded are those of the frames pulled
\* before, in every later state; when the first pull failed, no chunk was yielded,
\* the detector never ran and the store is as it was initially.
C10_PullFailureStops ==
    \A l \in {"loop1"} :
        pc[l] = "done" =>
            /\ hist[l].releases = 1
            /\ cap[l] = "released"
            /\ hist[l].chunks = frame_count[l]
            /\ frame_count[l] = 0 =>
                  /\ hist[l].chunks = 0
                  /\ hist[l].ndet = 0
                  /\ latest_stats = InitStats
                  /\ StoredCountsValue = EmptyDict
                  /\ StoredAlertValue = NoAlert
                  /\ tag.fps = InitTag /\ tag.counts = InitTag
                  /\ tag.last_update_ts = InitTag

\* the source could not be opened: the first pull failed, and time has passed since
C10_Witness ==
    /\ pc["loop1"] = "done"
    /\ frame_count["loop1"] = 0
    /\ hist["loop1"].releases = 1
    /\ now > Epoch

\* C7: nothing a caller writes into a dictionary it was returned by
\* get_latest_stats, or into the dictionary it passed to _update_latest_stats,
\* shows in the store; and the returned value changes only by what its holder
\* writes into it, whatever updates follow.
C7_ReadIsolation ==
    /\ Tampered \notin DictKeys(StoredCountsValue)
    /\ StoredAlertValue.message # Tampered
    /\ Returned =>
          /\ dicts[snap.counts] = held.counts
          /\ alerts[snap.alert] = held.alert

\* the holder has changed both dictionaries of a returned snapshot, the caller of
\* update has changed the dictionary it passed, and an update with other values
\* has followed the read
C7_Witness ==
    /\ Returned
    /\ Tampered \in DictKeys(held.counts)
    /\ held.alert.message = Tampered
    /\ pc[Caller] = "idle"
    /\ counts[Caller] # 0
    /\ Tampered \in DictKeys(dicts[counts[Caller]])
    /\ StoredCountsValue = << << "person", 1 >> >>
    /\ StoredAlertValue.message = "1 person detected"
    /\ snap.last_update_ts < latest_stats.last_update_ts

\* C8: the alert is {message: "", ts: 0} initially; when a call of
\* _update_latest_stats returns, the store holds the call's fps, the items of the
\* call's counts and the time of the call as last_update_ts, and its alert is
\* {message, ts = now} if alert_message is neither absent nor empty, and is
\* otherwise exactly what it was.
C8_UpdateContract ==
    /\ StoredAlertValue = NoAlert
    /\ [][ \A t \in Writers :
              (pc[t] = "upd_alert" /\ pc'[t] # "upd_alert") =>
                  /\ latest_stats'.fps = call[t].fps
                  /\ dicts'[latest_stats'.counts] = dicts[counts[t]]
                  /\ latest_stats'.last_update_ts = now
                  /\ IF call[t].alert_message \notin {None, ""}
                     THEN alerts'[latest_stats'.alert] =
                              [message |-> call[t].alert_message, ts |-> now]
                     ELSE alerts'[latest_stats'.alert] = StoredAlertValue
       ]_vars

\* an update with the empty alert_message has returned at a later time than the
\* alert the store still holds
C8_Witness ==
    /\ pc[Caller] = "idle"
    /\ call[Caller].alert_message = ""
    /\ latest_stats.fps = call[Caller].fps
    /\ latest_stats.last_update_ts > StoredAlertValue.ts
    /\ StoredAlertValue.message = "1 person detected"
    /\ StoredCountsValue = EmptyDict

\* C9: the fps, counts and last_update_ts of every value get_latest_stats has
\* returned were written by one and the same call of _update_latest_stats (or are
\* all initial), and carry that call's values.
C9_SnapshotIsOneUpdate ==
    Returned =>
        /\ snap_tag.fps = snap_tag.counts
        /\ snap_tag.counts = snap_tag.last_update_ts
        /\ snap_tag.fps = InitTag =>
              (snap.fps = 0 /\ held.counts = EmptyDict /\ snap.last_update_ts = 0)
        /\ snap_tag.fps # InitTag =>
              (snap.fps > 0 /\ snap.last_update_ts >= Epoch)

\* a value was returned that loop2 wrote, after loop1 had written one, while
\* loop1 is again inside an update
C9_Witness ==
    /\ Returned
    /\ snap_tag.fps = << "loop2", 6 >>
    /\ hist["loop1"].ndet = 1
    /\ hist["loop2"].ndet = 1
    /\ tag.fps = << "loop1", 6 >>
    /\ pc["loop1"] = "upd_counts"

\* C11 (as claimed): whenever a call of _update_latest_stats replaces the stored
\* alert, the new alert's timestamp is more than 3 seconds after the timestamp
\* of the alert it replaces (the initial, empty alert excepted).
C11_StoreAlertsSpaced ==
    [][ \A t \in Writers :
          (pc[t] = "upd_alert" /\ pc'[t] # "upd_alert"
             /\ Truthy(call[t].alert_message) /\ StoredAlertValue # NoAlert) =>
              alerts'[latest_stats'.alert].ts - StoredAlertValue.ts > alert_cooldown
      ]_vars

\* C12: at the first sampling frame of a loop the smoothed FPS becomes that frame's
\* instant FPS, 1 / max(dt, 1e-6); at every later one it becomes exactly
\* 0.9 * previous + 0.1 * instant; the seeding test (smoothed_fps == 0) is true at
\* the first sampling frame and at no later one; and the value is what the update
\* of that frame stores.
C12_SmoothedFps ==
    [][ \A l \in Loops :
          /\ (hist'[l].ndet = hist[l].ndet + 1) =>
                LET dt == now' - now
                    instant == IF dt = 0 THEN 1000000 * FpsScale ELSE FpsScale \div dt
                IN  /\ (hist[l].ndet = 0) => smoothed_fps'[l] = instant
                    /\ (hist[l].ndet >= 1) =>
                          10 * smoothed_fps'[l] = 9 * smoothed_fps[l] + instant
                    /\ (smoothed_fps[l] = 0) <=> (hist[l].ndet = 0)
                    /\ call'[l].fps = smoothed_fps'[l]
          /\ (pc[l] = "upd_alert" /\ pc'[l] = "emit") =>
                latest_stats'.fps = smoothed_fps[l]
      ]_vars

\* the third sample of a loop is stored: a fast, a slow and a fast inference
C12_Witness ==
    /\ pc["loop1"] = "emit"
    /\ hist["loop1"].ndet = 3
    /\ latest_stats.fps = smoothed_fps["loop1"]
    /\ smoothed_fps["loop1"] = (9 * ((9 * (1000000 * FpsScale) + FpsScale) \div 10)
                                  + 1000000 * FpsScale) \div 10

\* C13: on a sampling frame with non-empty counts the loop produces an alert
\* message iff the current time is more than 3 seconds after the loop's cooldown
\* timer; the timer becomes the current time exactly when a message is produced and
\* keeps its value otherwise; and whether or not a message is produced the frame's
\* fps and counts are passed to the update, which stores them.
C13_CooldownGate ==
    [][ \A l \in Loops :
          /\ (hist'[l].nqual = hist[l].nqual + 1) =>
                LET emitted == call'[l].alert_message # None
                IN  /\ emitted <=> (now' - last_alert_time[l] > 3)
                    /\ emitted => /\ Truthy(call'[l].alert_message)
                                  /\ last_alert_time'[l] = now'
                    /\ ~ emitted => last_alert_time'[l] = last_alert_time[l]
                    /\ pc'[l] = "upd_lock"
                    /\ call'[l].fps = smoothed_fps'[l]
                    /\ dicts'[counts'[l]] # EmptyDict
          /\ (pc[l] = "upd_alert" /\ pc'[l] = "emit"
                /\ dicts[counts[l]] # EmptyDict) =>
                /\ latest_stats'.fps = call[l].fps
                /\ dicts'[latest_stats'.counts] = dicts[counts[l]]
      ]_vars

\* after an alert, a second qualifying sample inside the cooldown has been stored
\* without a message and without touching the timer
C13_Witness ==
    /\ pc["loop1"] = "emit"
    /\ hist["loop1"].nqual = 2
    /\ hist["loop1"].alert_at = {6}
    /\ ~ hist["loop1"].q_emit
    /\ last_alert_time["loop1"] = hist["loop1"].q_since
    /\ now - last_alert_time["loop1"] \in 1 .. 3
    /\ StoredCountsValue # EmptyDict
    /\ latest_stats.fps = smoothed_fps["loop1"]

\* C14: on a sampling frame none of whose boxes is of an allowlisted class, no
\* alert message is produced and the cooldown timer keeps its value; the update
\* still runs and stores the frame's fps and an empty counts mapping, and no step
\* of that update changes the stored alert.
C14_EmptyCounts ==
    [][ \A l \in Loops :
          /\ (hist'[l].ndet = hist[l].ndet + 1
                /\ \A i \in 1 .. Len(last_results'[l]) :
                      names(last_results'[l][i]) \notin allowed_classes) =>
                /\ call'[l].alert_message = None
                /\ last_alert_time'[l] = last_alert_time[l]
                /\ dicts'[counts'[l]] = EmptyDict
                /\ call'[l].fps = smoothed_fps'[l]
                /\ pc'[l] = "upd_lock"
          /\ (pc[l] \in UpdPcs /\ dicts[counts[l]] = EmptyDict) =>
                /\ alerts'[latest_stats'.alert] = StoredAlertValue
                /\ pc'[l] \in UpdPcs \cup {"emit"}
                /\ (pc'[l] = "emit") =>
                      /\ latest_stats'.fps = call[l].fps
                      /\ dicts'[latest_stats'.counts] = EmptyDict
      ]_vars

\* a frame with only a laptop in view follows a frame that raised an alert: the
\* stored counts are now empty and the earlier alert is still there
C14_Witness ==
    /\ pc["loop1"] = "emit"
    /\ hist["loop1"].ndet = 2
    /\ hist["loop1"].det_res = << 63 >>
    /\ hist["loop1"].alert_at = {6}
    /\ StoredCountsValue = EmptyDict
    /\ StoredAlertValue # NoAlert
    /\ StoredAlertValue.message = hist["loop1"].last_msg
    /\ latest_stats.fps = smoothed_fps["loop1"]

\* the position of the first box of class name k in a detector result
FirstSeen(results, k) ==
    CHOOSE i \in 1 .. Len(results) :
        /\ names(results[i]) = k
        /\ \A j \in 1 .. (i - 1) : names(results[j]) # k

\* C15: the message of every alert is "<count> <class> detected", where <count>
\* is the largest number of boxes any allowlisted class has in the frame's
\* detector result and <class> is, among the allowlisted classes with that many
\* boxes, the one whose first box comes earliest in the result; that message is
\* what the update stores.
C15_PluralityText ==
    [][ \A l \in Loops :
          /\ (hist'[l].ndet = hist[l].ndet + 1 /\ call'[l].alert_message # None) =>
                LET res == last_results'[l]
                    seen == { k \in allowed_classes : Occurrences(res, k) > 0 }
                    top == { k \in seen :
                               \A o \in seen : Occurrences(res, o) <= Occurrences(res, k) }
                    cls == CHOOSE k \in top :
                               \A o \in top : FirstSeen(res, k) <= FirstSeen(res, o)
                IN  /\ seen # {}
                    /\ call'[l].alert_message =
                          ToString(Occurrences(res, cls)) \o " " \o cls \o " detected"
          /\ (pc[l] = "upd_alert" /\ pc'[l] = "emit" /\ call[l].alert_message # None) =>
                alerts'[latest_stats'.alert].message = call[l].alert_message
      ]_vars

\* a laptop, then a car, then a person: car and person tie and the car came first
C15_Witness ==
    /\ pc["loop1"] = "emit"
    /\ hist["loop1"].det_res = << 63, 2, 0 >>
    /\ hist["loop1"].last_msg = "1 car detected"
    /\ StoredAlertValue # NoAlert
    /\ StoredAlertValue.message = "1 car detected"

\* what GET /stats would show
StoreSnapshot ==
    [ fps |-> latest_stats.fps, counts |-> StoredCountsValue,
      last_update_ts |-> latest_stats.last_update_ts, alert |-> StoredAlertValue ]

\* C16: pulling a frame whose counter is not a multiple of 6, and sending its
\* chunk, change the frame counter and the chunk only: the detector does not run,
\* the carried-forward result, the smoothed FPS and the cooldown timer keep their
\* values and no update is started; and while no other loop is inside an update,
\* no step taken while the counter is not a multiple of 6 changes what the store
\* holds.
C16_NonSamplingFrame ==
    [][ \A l \in Loops :
          LET kept == /\ hist'[l].ndet = hist[l].ndet
                      /\ hist'[l].det_n = hist[l].det_n
                      /\ hist'[l].raised_at = hist[l].raised_at
                      /\ last_results'[l] = last_results[l]
                      /\ smoothed_fps'[l] = smoothed_fps[l]
                      /\ last_alert_time'[l] = last_alert_time[l]
                      /\ call'[l] = call[l]
                      /\ pc'[l] \notin UpdPcs
          IN  /\ (frame_count'[l] = frame_count[l] + 1 /\ frame_count'[l] % 6 # 0) =>
                    /\ kept
                    /\ pc'[l] = "emit"
                    /\ hist'[l].chunks = hist[l].chunks
              /\ (pc[l] = "emit" /\ pc'[l] # "emit" /\ frame_count[l] % 6 # 0) =>
                    /\ kept
                    /\ frame_count'[l] = frame_count[l]
                    /\ hist'[l].chunks = hist[l].chunks + 1
              /\ (frame_count'[l] % 6 # 0
                    /\ \A o \in Writers \ {l} : pc[o] \notin UpdPcs) =>
                    /\ StoreSnapshot' = StoreSnapshot
                    /\ tag' = tag
      ]_vars

\* frame 7 has been sent: the store still shows what frame 6 put there
C16_Witness ==
    /\ pc["loop1"] = "yielded"
    /\ frame_count["loop1"] = 7
    /\ hist["loop1"].chunks = 7
    /\ hist["loop1"].ndet = 1
    /\ hist["loop1"].det_n = 6
    /\ StoredCountsValue # EmptyDict
    /\ latest_stats.fps = smoothed_fps["loop1"]
    /\ now > latest_stats.last_update_ts

\* C17: when the detector has raised on frame n of a loop, the loop has stopped:
\* the chunks it has yielded are those of frames 1..n-1, in every later state; and
\* the step on which it raised changed neither the store, nor the carried-forward
\* result, nor the smoothed FPS, nor the cooldown timer, and started no update.
C17_DetectorFailureFatal ==
    [][ \A l \in Loops :
          /\ (hist'[l].raised_at # 0) =>
                /\ pc'[l] = "raised"
                /\ frame_count'[l] = hist'[l].raised_at
                /\ hist'[l].raised_at % 6 = 0
                /\ hist'[l].chunks = hist'[l].raised_at - 1
                /\ hist'[l].ndet = (hist'[l].raised_at \div 6) - 1
          /\ (hist'[l].raised_at # hist[l].raised_at) =>
                /\ StoreSnapshot' = StoreSnapshot
                /\ tag' = tag
                /\ stats_lock' = stats_lock
                /\ last_results'[l] = last_results[l]
                /\ smoothed_fps'[l] = smoothed_fps[l]
                /\ last_alert_time'[l] = last_alert_time[l]
                /\ call'[l] = call[l]
                /\ hist'[l].chunks = hist[l].chunks
      ]_vars

\* the detector raised on frame 12; the store still shows the alert of frame 6,
\* and time has passed since
C17_Witness ==
    /\ hist["loop1"].raised_at = 12
    /\ pc["loop1"] = "raised"
    /\ hist["loop1"].chunks = 11
    /\ hist["loop1"].alert_at = {6}
    /\ StoredAlertValue # NoAlert
    /\ latest_stats.fps = smoothed_fps["loop1"]
    /\ now > latest_stats.last_update_ts

=============================================================================
